---- MODULE Spec2Model ----
(***************************************************************************)
(* tf2-price, src/helpers.rs: the metal rounding engine (round_metal) and  *)
(* the currency string parser (parse_from_string).                         *)
(*                                                                         *)
(* Metal values are Rust i32.  Arithmetic is modelled with its width: an   *)
(* addition or subtraction that leaves the i32 range panics when the crate *)
(* is built with overflow checks (debug profile) and wraps modulo 2^32     *)
(* when it is built without them (release profile).                        *)
(***************************************************************************)
EXTENDS Integers, Sequences, FiniteSets, TLC

VARIABLES
    metal,            \* round_metal: argument `metal`
    rounding,         \* round_metal: argument `rounding`
    overflow_checks,  \* build profile: TRUE = overflow panics, FALSE = wraps
    first,            \* outcome of round_metal(metal, rounding)
    second,           \* outcome of round_metal(first, rounding)
    string,           \* parse_from_string: argument `string`, a sequence of characters
    rest,             \* parse_from_string: elements the `for` loop has not visited yet
    keys,             \* parse_from_string: local `keys`
    parsed_metal,     \* parse_from_string: local `metal`
    ret,              \* parse_from_string: the value returned
    pc                \* position of the caller

roundVars == <<metal, rounding, overflow_checks, first, second>>
parseVars == <<string, rest, keys, parsed_metal, ret>>
vars == <<metal, rounding, overflow_checks, first, second,
          string, rest, keys, parsed_metal, ret, pc>>

-----------------------------------------------------------------------------
(* Bounds of the model                                                     *)

\* metal inputs around zero: -MaxMetal .. MaxMetal
MaxMetal == 40
\* metal inputs next to i32::MIN and i32::MAX: EdgeSpan values on each side
EdgeSpan == 20
\* parser inputs: strings of 1 .. MaxElements elements joined by ", "
MaxElements == 3

-----------------------------------------------------------------------------
(* Constants of the crate                                                  *)

\* doctests: get_metal_float(6) == 0.33 and get_metal_from_float(0.33) == 6
ONE_REF == 18

I32_MAX == 2147483647
I32_MIN == (-2147483647) - 1

-----------------------------------------------------------------------------
(* i32 arithmetic                                                          *)

\* a + b leaves the i32 range (evaluated without leaving it)
AddOverflows(a, b) ==
    \/ b > 0 /\ a > I32_MAX - b
    \/ b < 0 /\ a < I32_MIN - b

\* a + b modulo 2^32, as a two's complement i32
WrapAdd(a, b) ==
    IF b > 0 /\ a > I32_MAX - b THEN I32_MIN + ((a - (I32_MAX - b)) - 1)
    ELSE IF b < 0 /\ a < I32_MIN - b THEN I32_MAX + ((a - (I32_MIN - b)) + 1)
    ELSE a + b

\* Rust `a + b` on i32: the value and whether the addition overflowed
I32Add(a, b) == [ovf |-> AddOverflows(a, b), val |-> WrapAdd(a, b)]

\* Rust `a - b` on i32, for b # i32::MIN
I32Sub(a, b) == I32Add(a, -b)

\* Rust `a % n` on i32 for n > 0: the remainder has the sign of the dividend
I32Rem(a, n) ==
    IF a >= 0 THEN a % n
    ELSE IF a % n = 0 THEN 0 ELSE (a % n) - n

-----------------------------------------------------------------------------
(* round_metal                                                             *)

Rounding == {"UpScrap", "DownScrap", "Refined", "UpRefined", "DownRefined", "None"}

\* RoundUpScrap with the guard written `metal % 2 == 1`
RoundUpScrap_GuardEqOne(m) ==
    IF I32Rem(m, 2) = 1 THEN I32Add(m, 1) ELSE [ovf |-> FALSE, val |-> m]

\* arm `Rounding::UpScrap if metal % 2 != 0`
RoundUpScrap(m) ==
    IF I32Rem(m, 2) # 0 THEN I32Add(m, 1) ELSE [ovf |-> FALSE, val |-> m]

\* arm `Rounding::DownScrap if metal % 2 != 0`
RoundDownScrap(m) ==
    IF I32Rem(m, 2) # 0 THEN I32Sub(m, 1) ELSE [ovf |-> FALSE, val |-> m]

\* RoundRefined subtracting the remainder of `metal` instead of `value`
RoundRefined_RemOfMetal(m) ==
    LET value == I32Add(m, ONE_REF \div 2)
        res   == I32Sub(value.val, I32Rem(m, ONE_REF))
    IN  [ovf |-> value.ovf \/ res.ovf, val |-> res.val]

\* arm `Rounding::Refined`
RoundRefined(m) ==
    LET value == I32Add(m, ONE_REF \div 2)
        res   == I32Sub(value.val, I32Rem(value.val, ONE_REF))
    IN  [ovf |-> value.ovf \/ res.ovf, val |-> res.val]

\* RoundUpRefined without the `metal > 0` distinction
RoundUpRefined_NoSign(m) ==
    LET remainder == I32Rem(m, ONE_REF)
    IN  IF remainder # 0
        THEN I32Sub(m, remainder + (-ONE_REF))
        ELSE [ovf |-> FALSE, val |-> m]

\* arm `Rounding::UpRefined`
RoundUpRefined(m) ==
    LET remainder == I32Rem(m, ONE_REF)
    IN  IF remainder # 0
        THEN IF m > 0
             THEN I32Sub(m, remainder + (-ONE_REF))
             ELSE I32Sub(m, remainder)
        ELSE [ovf |-> FALSE, val |-> m]

\* arm `Rounding::DownRefined`
RoundDownRefined(m) ==
    LET remainder == I32Rem(m, ONE_REF)
    IN  IF remainder # 0
        THEN IF m > 0
             THEN I32Sub(m, remainder)
             ELSE I32Sub(m, remainder + ONE_REF)
        ELSE [ovf |-> FALSE, val |-> m]

\* The call round_metal(m, r) in a build with (checks) or without overflow
\* checks.  panic: the call panicked and returned nothing; ovf: an
\* arithmetic result left the i32 range; val: the value returned.
round_metal(m, r, checks) ==
    LET res == IF m = 0 THEN [ovf |-> FALSE, val |-> m]
               ELSE CASE r = "UpScrap"     -> RoundUpScrap(m)
                      [] r = "DownScrap"   -> RoundDownScrap(m)
                      [] r = "Refined"     -> RoundRefined(m)
                      [] r = "UpRefined"   -> RoundUpRefined(m)
                      [] r = "DownRefined" -> RoundDownRefined(m)
                      [] OTHER             -> [ovf |-> FALSE, val |-> m]
    IN  [panic |-> checks /\ res.ovf,
         ovf   |-> res.ovf,
         val   |-> IF checks /\ res.ovf THEN 0 ELSE res.val]

NoOutcome == [panic |-> FALSE, ovf |-> FALSE, val |-> 0]

\* nothing returned by parse_from_string yet
NoReturn == [kind |-> "none", site |-> "none", msg |-> "", keys |-> 0, metal |-> 0]

MetalInputs ==
    (-MaxMetal .. MaxMetal)
        \cup {I32_MIN + k : k \in 0 .. EdgeSpan}
        \cup {I32_MAX - k : k \in 0 .. EdgeSpan}

InitRound ==
    /\ metal \in MetalInputs
    /\ rounding \in Rounding
    /\ overflow_checks \in BOOLEAN
    /\ first = NoOutcome
    /\ second = NoOutcome
    /\ string = <<>>
    /\ rest = <<>>
    /\ keys = 0
    /\ parsed_metal = 0
    /\ ret = NoReturn
    /\ pc = "call"

\* the caller rounds its metal value
RoundMetal ==
    /\ pc = "call"
    /\ first' = round_metal(metal, rounding, overflow_checks)
    /\ pc' = "once"
    /\ UNCHANGED <<metal, rounding, overflow_checks, second, parseVars>>

\* the caller rounds the value it got back, under the same policy
RoundAgain ==
    /\ pc = "once"
    /\ ~first.panic
    /\ second' = round_metal(first.val, rounding, overflow_checks)
    /\ pc' = "twice"
    /\ UNCHANGED <<metal, rounding, overflow_checks, first, parseVars>>

NextRound == RoundMetal \/ RoundAgain

SpecRound == InitRound /\ [][NextRound]_vars

-----------------------------------------------------------------------------
(* parse_from_string                                                       *)
(*                                                                         *)
(* A string is a sequence of characters.  The characters of the model are  *)
(* the space, the comma, and words: runs of other characters that the      *)
(* parser never splits, taken as one unit each.                            *)

SP == " "
COMMA == ","

KEY_SYMBOL == "key"
KEYS_SYMBOL == "keys"
METAL_SYMBOL == "ref"
INVALID_CURRENCIES_FORMAT == "Invalid currencies format"

\* p is a prefix of s
StartsWith(s, p) == Len(p) <= Len(s) /\ SubSeq(s, 1, Len(p)) = p

\* str::split: the pieces of s between the non-overlapping occurrences of
\* sep, found left to right; n occurrences give n + 1 pieces
RECURSIVE Split(_, _)
Split(s, sep) ==
    IF s = <<>> THEN << <<>> >>
    ELSE IF StartsWith(s, sep)
         THEN << <<>> >> \o Split(SubSeq(s, Len(sep) + 1, Len(s)), sep)
         ELSE LET tl == Split(Tail(s), sep)
              IN  << <<Head(s)>> \o Head(tl) >> \o Tail(tl)

\* count_str.parse::<T>() for an integer key count type T: Ok on a decimal
\* integer literal, Err on anything else (empty, fractional, not a number)
ParseKeyCount(count_str) ==
    IF count_str \in { <<"0">>, <<"2">>, <<"3">> }
    THEN [ok |-> TRUE,
          val |-> CASE count_str = <<"0">> -> 0
                    [] count_str = <<"2">> -> 2
                    [] count_str = <<"3">> -> 3]
    ELSE [ok |-> FALSE, val |-> 0]

\* count_str.parse::<f32>(): Ok on a decimal literal, the value in hundredths
ParseF32(count_str) ==
    IF count_str \in { <<"0">>, <<"2">>, <<"3">>, <<"0.02">> }
    THEN [ok |-> TRUE,
          val |-> CASE count_str = <<"0">>    -> 0
                    [] count_str = <<"2">>    -> 200
                    [] count_str = <<"3">>    -> 300
                    [] count_str = <<"0.02">> -> 2]
    ELSE [ok |-> FALSE, val |-> 0]

\* get_metal_from_float: (value * ONE_REF).round() as i32, for a value given
\* in hundredths; f32::round rounds half away from zero
get_metal_from_float(hundredths) ==
    IF hundredths >= 0
    THEN (hundredths * ONE_REF + 50) \div 100
    ELSE -(((-hundredths) * ONE_REF + 50) \div 100)

\* T::default() of the key count type
DefaultKeys == 0

\* ErrorAt with one message for both count errors
ErrorAt_OneCountMessage(site) ==
    CASE site = "malformed"      -> INVALID_CURRENCIES_FORMAT
      [] site = "key_count"      -> "Error parsing count"
      [] site = "metal_count"    -> "Error parsing count"
      [] site = "unknown_symbol" -> INVALID_CURRENCIES_FORMAT
      [] site = "no_currencies"  -> "No currencies could be parsed from string"

\* the error value of each `return Err(..)` of parse_from_string
ErrorAt(site) ==
    CASE site = "malformed"      -> INVALID_CURRENCIES_FORMAT
      [] site = "key_count"      -> "Error parsing key count"
      [] site = "metal_count"    -> "Error parsing metal count"
      [] site = "unknown_symbol" -> INVALID_CURRENCIES_FORMAT
      [] site = "no_currencies"  -> "No currencies could be parsed from string"

\* ApplyElement adding the parsed count to the accumulator
ApplyElement_Sum(k, m, element) ==
    LET element_split == Split(element, <<SP>>)
        count_str     == element_split[1]
        currency_name == element_split[2]
    IN  IF Len(element_split) # 2
        THEN [site |-> "malformed", keys |-> k, metal |-> m]
        ELSE IF currency_name \in { <<KEY_SYMBOL>>, <<KEYS_SYMBOL>> }
        THEN IF ParseKeyCount(count_str).ok
             THEN [site |-> "none", keys |-> k + ParseKeyCount(count_str).val, metal |-> m]
             ELSE [site |-> "key_count", keys |-> k, metal |-> m]
        ELSE IF currency_name = <<METAL_SYMBOL>>
        THEN IF ParseF32(count_str).ok
             THEN [site |-> "none", keys |-> k,
                   metal |-> m + get_metal_from_float(ParseF32(count_str).val)]
             ELSE [site |-> "metal_count", keys |-> k, metal |-> m]
        ELSE [site |-> "unknown_symbol", keys |-> k, metal |-> m]

\* the body of the `for` loop on one element, with the accumulators k and m:
\* the `return Err` it takes (site, "none" if it takes none) and the
\* accumulators after it
ApplyElement(k, m, element) ==
    LET element_split == Split(element, <<SP>>)
        count_str     == element_split[1]
        currency_name == element_split[2]
    IN  IF Len(element_split) # 2
        THEN [site |-> "malformed", keys |-> k, metal |-> m]
        ELSE IF currency_name \in { <<KEY_SYMBOL>>, <<KEYS_SYMBOL>> }
        THEN IF ParseKeyCount(count_str).ok
             THEN [site |-> "none", keys |-> ParseKeyCount(count_str).val, metal |-> m]
             ELSE [site |-> "key_count", keys |-> k, metal |-> m]
        ELSE IF currency_name = <<METAL_SYMBOL>>
        THEN IF ParseF32(count_str).ok
             THEN [site |-> "none", keys |-> k,
                   metal |-> get_metal_from_float(ParseF32(count_str).val)]
             ELSE [site |-> "metal_count", keys |-> k, metal |-> m]
        ELSE [site |-> "unknown_symbol", keys |-> k, metal |-> m]

Err(site) ==
    [kind |-> "Err", site |-> site, msg |-> ErrorAt(site), keys |-> 0, metal |-> 0]

Ok(k, m) ==
    [kind |-> "Ok", site |-> "none", msg |-> "", keys |-> k, metal |-> m]

\* s1 ++ sep ++ s2 ++ sep ++ ... for the sequence of strings ss
RECURSIVE Join(_, _)
Join(ss, sep) ==
    IF Len(ss) = 0 THEN <<>>
    ELSE IF Len(ss) = 1 THEN ss[1]
    ELSE ss[1] \o sep \o Join(Tail(ss), sep)

CountWords == {"0", "2", "3", "0.02", "abc"}
SymbolWords == {KEY_SYMBOL, KEYS_SYMBOL, METAL_SYMBOL, "gems"}

\* the elements the input strings are made of: "<count> <symbol>", the
\* empty element, a lone count, and an element of three tokens
ElementInputs ==
    { <<c, SP, y>> : c \in CountWords, y \in SymbolWords }
        \cup { <<>>, <<"2">>, <<"2", SP, KEYS_SYMBOL, SP, METAL_SYMBOL>> }

\* the input strings: 1 .. MaxElements elements joined by ", "
InitParse ==
    /\ \E n \in 1 .. MaxElements :
          \E es \in [1 .. n -> ElementInputs] :
              string = Join(es, <<COMMA, SP>>)
    /\ rest = Split(string, <<COMMA, SP>>)
    /\ keys = DefaultKeys
    /\ parsed_metal = 0
    /\ ret = NoReturn
    /\ metal = 0
    /\ rounding = "None"
    /\ overflow_checks = FALSE
    /\ first = NoOutcome
    /\ second = NoOutcome
    /\ pc = "loop"

\* ParseElement visiting the elements from the last to the first
ParseElement_Backwards ==
    /\ pc = "loop"
    /\ rest # <<>>
    /\ LET r == ApplyElement(keys, parsed_metal, rest[Len(rest)])
       IN  IF r.site # "none"
           THEN /\ ret' = Err(r.site)
                /\ pc' = "returned"
                /\ UNCHANGED <<keys, parsed_metal, rest>>
           ELSE /\ keys' = r.keys
                /\ parsed_metal' = r.metal
                /\ rest' = SubSeq(rest, 1, Len(rest) - 1)
                /\ UNCHANGED <<ret, pc>>
    /\ UNCHANGED <<string, roundVars>>

\* one iteration of `for element in string.split(", ")`
ParseElement ==
    /\ pc = "loop"
    /\ rest # <<>>
    /\ LET r == ApplyElement(keys, parsed_metal, Head(rest))
       IN  IF r.site # "none"
           THEN /\ ret' = Err(r.site)
                /\ pc' = "returned"
                /\ UNCHANGED <<keys, parsed_metal, rest>>
           ELSE /\ keys' = r.keys
                /\ parsed_metal' = r.metal
                /\ rest' = Tail(rest)
                /\ UNCHANGED <<ret, pc>>
    /\ UNCHANGED <<string, roundVars>>

\* ParseFinish rejecting when either accumulator is at its default
ParseFinish_EitherDefault ==
    /\ pc = "loop"
    /\ rest = <<>>
    /\ ret' = IF keys = DefaultKeys \/ parsed_metal = 0
              THEN Err("no_currencies")
              ELSE Ok(keys, parsed_metal)
    /\ pc' = "returned"
    /\ UNCHANGED <<string, rest, keys, parsed_metal, roundVars>>

\* after the loop: the check of the accumulators and the return
ParseFinish ==
    /\ pc = "loop"
    /\ rest = <<>>
    /\ ret' = IF keys = DefaultKeys /\ parsed_metal = 0
              THEN Err("no_currencies")
              ELSE Ok(keys, parsed_metal)
    /\ pc' = "returned"
    /\ UNCHANGED <<string, rest, keys, parsed_metal, roundVars>>

NextParse == ParseElement \/ ParseFinish

SpecParse == InitParse /\ [][NextParse]_vars

-----------------------------------------------------------------------------
(* Properties of round_metal, checked under SpecRound                      *)

\* the greatest and the least multiple of ONE_REF an i32 can hold
MaxMultiple == I32_MAX - (I32_MAX % ONE_REF)
MinMultiple == I32_MIN + ((ONE_REF - (I32_MIN % ONE_REF)) % ONE_REF)

\* C1: round_metal is idempotent under every policy: rounding the rounded
\* value again gives the rounded value.  Stated for the calls in which no
\* arithmetic result left the i32 range.
C1_Idempotent ==
    (pc = "twice" /\ ~first.ovf /\ ~second.ovf) => second.val = first.val

\* C2: under Refined, round_metal(m) = ONE_REF * floor((m + ONE_REF/2) / ONE_REF),
\* the multiple of ONE_REF nearest to m with ties going up, so the result is
\* never further than ONE_REF/2 from m.  Stated for the calls in which no
\* arithmetic result left the i32 range.
C2_RefinedNearest ==
    (pc # "call" /\ rounding = "Refined" /\ ~first.ovf) =>
        /\ first.val = ONE_REF * ((metal + ONE_REF \div 2) \div ONE_REF)
        /\ first.val - metal <= ONE_REF \div 2
        /\ metal - first.val <= ONE_REF \div 2

\* C3: under Refined, every value round_metal returns is a multiple of
\* ONE_REF, for negative as well as positive metal.
C3_RefinedIsMultiple ==
    (pc # "call" /\ rounding = "Refined" /\ ~first.panic) =>
        first.val % ONE_REF = 0

C3_Witness ==
    /\ pc = "once"
    /\ rounding = "Refined"
    /\ metal < -ONE_REF
    /\ metal % ONE_REF # 0
    /\ ~first.panic
    /\ first.val # 0

\* C4: UpRefined returns the least multiple of ONE_REF that is >= metal and
\* DownRefined the greatest multiple of ONE_REF that is <= metal, whenever
\* an i32 can hold that multiple; a metal value that is a multiple of
\* ONE_REF is returned unchanged by both.
C4_RefinedBracket ==
    pc # "call" =>
        /\ (rounding = "UpRefined" /\ metal <= MaxMultiple) =>
              /\ ~first.ovf
              /\ first.val % ONE_REF = 0
              /\ first.val >= metal
              /\ first.val - metal < ONE_REF
        /\ (rounding = "DownRefined" /\ metal >= MinMultiple) =>
              /\ ~first.ovf
              /\ first.val % ONE_REF = 0
              /\ first.val <= metal
              /\ metal - first.val < ONE_REF
        /\ (rounding \in {"UpRefined", "DownRefined"} /\ metal % ONE_REF = 0) =>
              /\ ~first.ovf
              /\ first.val = metal

C4_Witness ==
    /\ pc = "once"
    /\ rounding = "UpRefined"
    /\ metal < 0
    /\ metal % ONE_REF # 0
    /\ first.val > metal
    /\ first.val < 0

\* C5: for odd metal UpScrap returns metal + 1 (whenever an i32 can hold it)
\* and DownScrap returns metal - 1; for even metal both return metal; so
\* every value a scrap policy returns is even.
C5_ScrapParity ==
    pc # "call" =>
        /\ (rounding = "UpScrap" /\ metal % 2 = 1 /\ metal < I32_MAX) =>
              /\ ~first.ovf
              /\ first.val = metal + 1
        /\ (rounding = "DownScrap" /\ metal % 2 = 1) =>
              /\ ~first.ovf
              /\ first.val = metal - 1
        /\ (rounding \in {"UpScrap", "DownScrap"} /\ metal % 2 = 0) =>
              /\ ~first.ovf
              /\ first.val = metal
        /\ (rounding \in {"UpScrap", "DownScrap"} /\ ~first.panic) =>
              first.val % 2 = 0

C5_Witness ==
    /\ pc = "once"
    /\ rounding = "UpScrap"
    /\ metal < -1
    /\ metal % 2 = 1
    /\ first.val = metal + 1

\* C6: round_metal is total over the i32 range: for every metal value and
\* policy it returns, and no arithmetic result leaves the i32 range.
C6_NoOverflow ==
    pc # "call" => (~first.ovf /\ ~first.panic)

-----------------------------------------------------------------------------
(* Properties of parse_from_string, checked under SpecParse                *)

\* the elements of the input, and the two tokens of a well-formed one
Elements == Split(string, <<COMMA, SP>>)
CountOf(element) == Split(element, <<SP>>)[1]
SymbolOf(element) == Split(element, <<SP>>)[2]

\* the failure kind of one element taken alone, "none" for a valid element
ElementFailure(element) ==
    IF Len(Split(element, <<SP>>)) # 2 THEN "malformed"
    ELSE IF SymbolOf(element) \in { <<"key">>, <<"keys">> }
    THEN IF CountOf(element) \in { <<"0">>, <<"2">>, <<"3">> }
         THEN "none" ELSE "key_count"
    ELSE IF SymbolOf(element) = <<"ref">>
    THEN IF CountOf(element) \in { <<"0">>, <<"2">>, <<"3">>, <<"0.02">> }
         THEN "none" ELSE "metal_count"
    ELSE "unknown_symbol"

Invalid == { i \in 1 .. Len(Elements) : ElementFailure(Elements[i]) # "none" }
KeyElements == { i \in 1 .. Len(Elements) :
                    /\ ElementFailure(Elements[i]) = "none"
                    /\ SymbolOf(Elements[i]) \in { <<"key">>, <<"keys">> } }
MetalElements == { i \in 1 .. Len(Elements) :
                    /\ ElementFailure(Elements[i]) = "none"
                    /\ SymbolOf(Elements[i]) = <<"ref">> }
Highest(S) == CHOOSE i \in S : \A j \in S : j <= i
Lowest(S) == CHOOSE i \in S : \A j \in S : i <= j

\* the count of the last key/keys element and the metal of the last metal element
LastKeys ==
    IF KeyElements = {} THEN 0
    ELSE ParseKeyCount(CountOf(Elements[Highest(KeyElements)])).val
LastMetal ==
    IF MetalElements = {} THEN 0
    ELSE get_metal_from_float(ParseF32(CountOf(Elements[Highest(MetalElements)])).val)

\* C7: when parse_from_string returns Ok, the key count is the count of the
\* last key/keys element (the default if there is none) and the metal is
\* get_metal_from_float of the count of the last metal element (0 if there
\* is none): earlier elements of a denomination are overwritten, not summed.
\* "2 keys, 2 ref" yields (2, get_metal_from_float(2.0)).
C7_LastElementWins ==
    /\ (pc = "returned" /\ ret.kind = "Ok") =>
          /\ ret.keys = LastKeys
          /\ ret.metal = LastMetal
    /\ (pc = "returned"
          /\ string = <<"2", " ", "keys", ",", " ", "2", " ", "ref">>) =>
          ret = Ok(2, get_metal_from_float(200))

C7_Witness ==
    /\ pc = "returned"
    /\ ret.kind = "Ok"
    /\ Cardinality(KeyElements) >= 2
    /\ MetalElements # {}
    /\ Lowest(KeyElements) < Lowest(MetalElements)
    /\ Lowest(MetalElements) < Highest(KeyElements)
    /\ ParseKeyCount(CountOf(Elements[Lowest(KeyElements)])).val = 3
    /\ ret.keys = 2
    /\ ret.metal # 0

\* C8: when some element is invalid, parse_from_string returns the error of
\* the first invalid element, whatever precedes or follows it, and no
\* (keys, metal) pair.
C8_FirstInvalidElement ==
    (pc = "returned" /\ Invalid # {}) =>
        /\ ret.kind = "Err"
        /\ ret.site = ElementFailure(Elements[Lowest(Invalid)])
        /\ ret.msg = ErrorAt(ret.site)

C8_Witness ==
    /\ pc = "returned"
    /\ Cardinality(Invalid) >= 2
    /\ Lowest(Invalid) > 1
    /\ ElementFailure(Elements[Lowest(Invalid)]) = "metal_count"
    /\ ElementFailure(Elements[Highest(Invalid)]) = "key_count"
    /\ ret.msg = "Error parsing metal count"

Sites == {"malformed", "key_count", "metal_count", "unknown_symbol", "no_currencies"}

\* C9: the five failure kinds are pairwise distinguishable by the error
\* value: the value returned for one kind is returned for no other kind.
C9_FiveDistinctErrors ==
    (pc = "returned" /\ ret.kind = "Err") =>
        \A other \in Sites \ {ret.site} : ErrorAt(other) # ret.msg

\* C9 as amended: the error value returned for one failure kind is returned
\* for no other kind, except that a malformed element and an unknown symbol
\* return the same value.
C9_FourDistinctErrors ==
    (pc = "returned" /\ ret.kind = "Err") =>
        /\ \A other \in Sites \ {ret.site} :
              ErrorAt(other) = ret.msg =>
                  {other, ret.site} = {"malformed", "unknown_symbol"}
        /\ ret.site = "malformed" => ret.msg = ErrorAt("unknown_symbol")
        /\ ret.site = "unknown_symbol" => ret.msg = ErrorAt("malformed")

C9_Witness ==
    /\ pc = "returned"
    /\ ret.kind = "Err"
    /\ ret.site = "key_count"
    /\ Len(Elements) >= 2

\* C10: parse_from_string never returns Ok with (default keys, 0 metal):
\* when no element is invalid it fails with the no-currencies error exactly
\* when both accumulators are at their default after the last element, and
\* returns Ok with the accumulators otherwise.
C10_NoCurrencies ==
    pc = "returned" =>
        /\ ~(ret.kind = "Ok" /\ ret.keys = DefaultKeys /\ ret.metal = 0)
        /\ Invalid = {} =>
              /\ (ret.kind = "Err" /\ ret.site = "no_currencies")
                    <=> (keys = DefaultKeys /\ parsed_metal = 0)
              /\ (ret.kind = "Err" /\ ret.site = "no_currencies")
                    <=> (LastKeys = 0 /\ LastMetal = 0)
              /\ ret.kind # "Err" => ret = Ok(keys, parsed_metal)

C10_Witness ==
    /\ pc = "returned"
    /\ Invalid = {}
    /\ Cardinality(KeyElements) >= 2
    /\ ParseKeyCount(CountOf(Elements[Lowest(KeyElements)])).val = 2
    /\ ret.kind = "Err"
    /\ ret.site = "no_currencies"
====
